---- MODULE Spec2Model ----
(***************************************************************************)
(* Model of build.py: the build_binary pipeline (toolchain gate, target    *)
(* selection, cargo and ndk-build invocations, artifact relocation,        *)
(* generated headers, ELF post-processing).                                *)
(*                                                                         *)
(* The filesystem is a record [dirs, files]: dirs is the set of existing   *)
(* directories, files a function from the existing file paths to their     *)
(* content.  A path is a tuple of components, as in Path("native", "out",   *)
(* arch, tgt).  Text is a sequence of tokens, "\n" being a token of its own;*)
(* binary content is a sequence of bytes.                                  *)
(***************************************************************************)
EXTENDS Integers, Sequences, FiniteSets, TLC

VARIABLES
    pc,        \* position in build_binary, or the way the process ended
    fs,        \* the filesystem
    config,    \* the global config dictionary
    args,      \* the parsed command line: [target, release]
    targets,   \* run_cargo_build's local set of crates to build
    ai,        \* index into archs of the running loop
    flag,      \* build_binary's flag string, as the sequence of its words
    clean,     \* build_binary's local `clean`
    ret,       \* where run_ndk_build returns to
    log,       \* what the run did so far: processes run, files written, moves,
               \* trees removed, calls of clean_elf
    start      \* the filesystem, config and command line the run started with,
               \* and the config and command line of the run before it

vars == <<pc, fs, config, args, targets, ai, flag, clean, ret, log, start>>

----------------------------------------------------------------------------
(* Program constants *)

archs == <<"armeabi-v7a", "x86", "arm64-v8a", "x86_64">>

triples == <<"armv7a-linux-androideabi", "i686-linux-android",
             "aarch64-linux-android", "x86_64-linux-android">>

default_targets == <<"magisk", "magiskinit", "magiskboot", "magiskpolicy", "busybox">>

support_targets == default_targets \o <<"resetprop">>

rust_targets == <<"magisk", "magiskinit", "magiskboot", "magiskpolicy">>

Range(s) == {s[i] : i \in DOMAIN s}

Archs == Range(archs)

\* set(list) of Python
ToSet(l) == Range(l)

\* the names run_ndk_build relocates: support_targets + ["libinit-ld.so"]
ndk_names == support_targets \o <<"libinit-ld.so">>

\* f"lib{tgt}.a"
LibA(tgt) ==
    CASE tgt = "magisk" -> "libmagisk.a"
      [] tgt = "magiskinit" -> "libmagiskinit.a"
      [] tgt = "magiskboot" -> "libmagiskboot.a"
      [] tgt = "magiskpolicy" -> "libmagiskpolicy.a"

\* f"lib{tgt}-rs.a"
LibRsA(tgt) ==
    CASE tgt = "magisk" -> "libmagisk-rs.a"
      [] tgt = "magiskinit" -> "libmagiskinit-rs.a"
      [] tgt = "magiskboot" -> "libmagiskboot-rs.a"
      [] tgt = "magiskpolicy" -> "libmagiskpolicy-rs.a"

\* f"{arch}_binaries.h"
BinariesH(arch) ==
    CASE arch = "armeabi-v7a" -> "armeabi-v7a_binaries.h"
      [] arch = "x86" -> "x86_binaries.h"
      [] arch = "arm64-v8a" -> "arm64-v8a_binaries.h"
      [] arch = "x86_64" -> "x86_64_binaries.h"

native_gen_path == <<"native", "out", "generated">>

ndk_path == <<"sdk", "ndk", "magisk">>

ONDK_VERSION == ndk_path \o <<"ONDK_VERSION">>

FlagsH == native_gen_path \o <<"flags.h">>

elf_cleaner == <<"native", "out", "elf-cleaner">>

LibsPath(arch, tgt) == <<"native", "libs", arch, tgt>>

OutPath(arch, tgt) == <<"native", "out", arch, tgt>>

\* "thumbv7neon-linux-androideabi" if triple.startswith("armv7") else triple
RustTriple(i) ==
    IF triples[i] = "armv7a-linux-androideabi"
    THEN "thumbv7neon-linux-androideabi" ELSE triples[i]

RustOut(release) == IF release THEN "release" ELSE "debug"

\* Path("target", rust_triple, rust_out, f"lib{tgt}.a"), relative to native/src
CargoOut(i, release, tgt) ==
    <<"native", "src", "target", RustTriple(i), RustOut(release), LibA(tgt)>>

----------------------------------------------------------------------------
(* Filesystem primitives *)

Parent(p) == SubSeq(p, 1, Len(p) - 1)

Exists(f, p) == p \in DOMAIN f.files \/ p \in f.dirs

IsFile(f, p) == p \in DOMAIN f.files

Prefixes(p) == {SubSeq(p, 1, n) : n \in 1..Len(p)}

\* Path.mkdir(exist_ok=True); the parent exists at every call site
Mkdir(f, p) == [f EXCEPT !.dirs = @ \cup {p}]

\* Path.mkdir(parents=True, exist_ok=True)
MkdirParents(f, p) == [f EXCEPT !.dirs = @ \cup Prefixes(p)]

\* open(p, "w").write(data): the directory of p exists at every call site
WriteFile(f, p, data) ==
    [f EXCEPT !.files = [q \in DOMAIN f.files \cup {p} |->
                            IF q = p THEN data ELSE f.files[q]]]

\* an external tool (cargo, ndk-build, gcc) creating its output p, with the
\* directories leading to it
Produce(f, p, data) == WriteFile(MkdirParents(f, Parent(p)), p, data)

RemoveFile(f, p) ==
    [f EXCEPT !.files = [q \in DOMAIN f.files \ {p} |-> f.files[q]]]

\* shutil.move(source, target) of a file onto a file path: os.rename needs the
\* source and the target's directory; any exception leaves everything as it was
MvOk(f, source, target) ==
    IsFile(f, source) /\ Parent(target) \in f.dirs /\ target \notin f.dirs

mv(f, source, target) ==
    IF MvOk(f, source, target)
    THEN RemoveFile(WriteFile(f, target, f.files[source]), source)
    ELSE f

----------------------------------------------------------------------------
(* Text *)

NL == "\n"

Whitespace == {" ", "\t", "\r", "\n"}

RECURSIVE LStrip(_)
LStrip(s) == IF s # <<>> /\ Head(s) \in Whitespace THEN LStrip(Tail(s)) ELSE s

RECURSIVE RStrip(_)
RStrip(s) ==
    IF s # <<>> /\ s[Len(s)] \in Whitespace
    THEN RStrip(SubSeq(s, 1, Len(s) - 1)) ELSE s

\* str.strip(" \t\r\n")
Strip(s) == RStrip(LStrip(s))

DecDigit == <<"0", "1", "2", "3", "4", "5", "6", "7", "8", "9">>

HexDigit == DecDigit \o <<"A", "B", "C", "D", "E", "F">>

\* f"{n}" of a non-negative integer
RECURSIVE Dec(_)
Dec(n) == IF n < 10 THEN <<DecDigit[n + 1]>>
          ELSE Dec(n \div 10) \o <<DecDigit[(n % 10) + 1]>>

\* f"0x{c:X},": no padding to two digits
HexByteNoPad(c) ==
    IF c < 16 THEN <<"0x", HexDigit[c + 1], ",">>
    ELSE <<"0x", HexDigit[(c \div 16) + 1], HexDigit[(c % 16) + 1], ",">>

\* f"0x{c:02X},"
HexByte(c) == <<"0x", HexDigit[(c \div 16) + 1], HexDigit[(c % 16) + 1], ",">>

----------------------------------------------------------------------------
(* Generated headers *)

\* lzma.compress(data, preset=9, check=lzma.CHECK_NONE): the codec is a library;
\* it is modelled as a lossless framing of the data (stream magic, data, footer)
xz(data) == <<253, 55>> \o data \o <<89, 90>>

\* the loop with the literal in the else branch of the line break
RECURSIVE DumpBytesSkip(_, _)
DumpBytesSkip(bytes, i) ==
    IF i >= Len(bytes) THEN <<>>
    ELSE (IF i % 16 = 0 THEN <<NL>> ELSE HexByte(bytes[i + 1]))
         \o DumpBytesSkip(bytes, i + 1)

\* the loop of binary_dump over the compressed bytes, from index i on
RECURSIVE DumpBytes(_, _)
DumpBytes(bytes, i) ==
    IF i >= Len(bytes) THEN <<>>
    ELSE (IF i % 16 = 0 THEN <<NL>> ELSE <<>>)
         \o HexByte(bytes[i + 1]) \o DumpBytes(bytes, i + 1)

\* binary_dump's text for the output of its compressor
binary_dump_of(compressed, var_name) ==
    <<"constexpr unsigned char ", var_name, "[] = {">>
    \o DumpBytes(compressed, 0)
    \o <<NL, "};", NL>>

\* binary_dump with its default compressor
binary_dump(src, var_name) == binary_dump_of(xz(src), var_name)

FlagTemplate ==
    <<"#pragma once", NL,
      "#define quote(s)            #s", NL,
      "#define str(s)              quote(s)", NL,
      "#define MAGISK_FULL_VER     MAGISK_VERSION \"(\" str(MAGISK_VER_CODE) \")\"", NL,
      "#define NAME_WITH_VER(name) str(name) \" \" MAGISK_FULL_VER", NL>>

VersionLine(version) == <<"#define MAGISK_VERSION      \"">> \o version \o <<"\"", NL>>

VerCodeLine(code) == <<"#define MAGISK_VER_CODE     ">> \o Dec(code) \o <<NL>>

DebugLine(release) ==
    <<"#define MAGISK_DEBUG        ">> \o Dec(IF release THEN 0 ELSE 1) \o <<NL>>

\* the text with the version repeated in the version code line
flag_txt_ver_twice(cfg, release) ==
    FlagTemplate \o VersionLine(cfg.version)
    \o <<"#define MAGISK_VER_CODE     ">> \o Dec(cfg.versionCode) \o cfg.version \o <<NL>>
    \o DebugLine(release)

\* the text dump_flag_header renders
flag_txt(cfg, release) ==
    FlagTemplate \o VersionLine(cfg.version) \o VerCodeLine(cfg.versionCode)
    \o DebugLine(release)

\* write_if_diff without the comparison
do_write_always(f, file_name, text) == TRUE

\* write_if_diff: whether it writes, and the filesystem it leaves
do_write(f, file_name, text) ==
    IF Exists(f, file_name) THEN f.files[file_name] # text ELSE TRUE

write_if_diff(f, file_name, text) ==
    IF do_write(f, file_name, text) THEN WriteFile(f, file_name, text) ELSE f

----------------------------------------------------------------------------
(* Bounds and inputs *)

\* longest ONDK version string and marker file content
MaxVerLen == 2

\* names a command line may carry beyond the catalog
OtherTargets == {"bogus"}

VerChars == {"1", " ", "\n"}

SeqsUpTo(S, n) == UNION {[1..k -> S] : k \in 0..n}

\* what the ONDK_VERSION file may hold
MarkerTexts == SeqsUpTo(VerChars, MaxVerLen)

\* values parse_props can yield: non-empty, stripped
PropValues == {v \in SeqsUpTo(VerChars \ {"\n"}, MaxVerLen) : v # <<>> /\ Strip(v) = v}

BaseConfig == [version |-> <<"1">>, versionCode |-> 1000000]

WithOndk(cfg, v) ==
    [k \in DOMAIN cfg \cup {"ondkVersion"} |->
        IF k = "ondkVersion" THEN v ELSE cfg[k]]

ArchIdx(arch) == CHOOSE i \in DOMAIN archs : archs[i] = arch

\* the bytes of an artifact: which build made it (0: an earlier run, 1: this
\* run), for which architecture
Built(gen, arch) == <<gen, ArchIdx(arch)>>

\* Produce for each <<path, data>> of a set of outputs with distinct paths
ProduceAll(f, items) ==
    LET paths == {it[1] : it \in items}
        data(p) == (CHOOSE it \in items : it[1] = p)[2]
    IN [dirs |-> f.dirs \cup UNION {Prefixes(Parent(p)) : p \in paths},
        files |-> [q \in DOMAIN f.files \cup paths |->
                      IF q \in paths THEN data(q) ELSE f.files[q]]]

\* the source tree before any build
CleanTree ==
    [dirs |-> {<<"native">>, <<"native", "src">>, <<"sdk">>, <<"sdk", "ndk">>, ndk_path},
     files |-> <<>>]

\* the tree an earlier release build of the default targets left behind
StaleTree ==
    LET bins == {<<OutPath(a, n),
                   IF n \in {"magisk", "magiskpolicy"}
                   THEN Built(0, a) \o <<23>> ELSE Built(0, a)>> :
                    a \in Archs, n \in ToSet(default_targets) \cup {"libinit-ld.so"}}
        libs == {<<OutPath(a, LibRsA(t)), Built(0, a)>> :
                    a \in Archs, t \in ToSet(rust_targets)}
        hdrs == {<<native_gen_path \o <<BinariesH(a)>>,
                   binary_dump(Built(0, a), "init_ld_xz")>> : a \in Archs}
                \cup {<<FlagsH, flag_txt(BaseConfig, TRUE)>>,
                      <<elf_cleaner, <<0>> >>}
        f == ProduceAll(CleanTree, bins \cup libs \cup hdrs)
    IN [f EXCEPT !.dirs = @ \cup {<<"native", "libs">>}
                              \cup {<<"native", "libs", a>> : a \in Archs}]

Trees == {CleanTree, StaleTree}

Requests == SUBSET (ToSet(support_targets) \cup OtherTargets)

----------------------------------------------------------------------------
(* The log *)

Ev(op, arg, rc) == [op |-> op, arg |-> arg, rc |-> rc]

ExecOps == {"cargo", "ndk-build", "gcc", "elf-cleaner"}

\* mv for each <<source, target>> of a loop, in order.  The sources and targets
\* of one loop are distinct files and no target is a source, so each move
\* succeeds or fails as it would alone
MvAll(f, moves) ==
    LET done == SelectSeq(moves, LAMBDA m : MvOk(f, m[1], m[2]))
        srcs == {done[k][1] : k \in DOMAIN done}
        tgts == {done[k][2] : k \in DOMAIN done}
        from(p) == (CHOOSE k \in DOMAIN done : done[k][2] = p)
    IN [dirs |-> f.dirs,
        files |-> [q \in (DOMAIN f.files \ srcs) \cup tgts |->
                      IF q \in tgts THEN f.files[done[from(q)][1]] ELSE f.files[q]]]

\* vprint(f"mv {source} -> {target}"): one line per move that succeeded
MvLog(f, moves) ==
    LET done == SelectSeq(moves, LAMBDA m : MvOk(f, m[1], m[2]))
    IN [k \in DOMAIN done |-> Ev("mv", done[k][1] \o done[k][2], 0)]

----------------------------------------------------------------------------
(* build_binary *)

\* the NDK check with its assert compiled away: a readable marker file passes
NdkMatchesAnyFile(f, cfg) == IsFile(f, ONDK_VERSION)

\* the assert of the NDK check; any exception in it is the failure
NdkMatches(f, cfg) ==
    /\ IsFile(f, ONDK_VERSION)
    /\ "ondkVersion" \in DOMAIN cfg
    /\ Strip(f.files[ONDK_VERSION]) = cfg["ondkVersion"]

\* the selection without the catalog filter
SelectUnfiltered(requested) ==
    IF requested # {} THEN requested ELSE ToSet(default_targets)

\* the selection falling back to the defaults when nothing of the catalog is asked
SelectOrDefault(requested) ==
    IF requested \cap ToSet(support_targets) # {}
    THEN requested \cap ToSet(support_targets)
    ELSE ToSet(default_targets)

\* args.target after the selection
Select(requested) ==
    IF requested # {} THEN requested \cap ToSet(support_targets)
    ELSE ToSet(default_targets)

\* the crates with the base crate pulled in by magiskinit as well
CargoTargetsInitBase(target) ==
    (target \cap ToSet(rust_targets))
    \cup (IF "resetprop" \in target \/ "magiskinit" \in target THEN {"magisk"} ELSE {})

\* the crates without the resetprop rule
CargoTargetsNoBase(target) == target \cap ToSet(rust_targets)

\* run_cargo_build's targets
CargoTargets(target) ==
    (target \cap ToSet(rust_targets))
    \cup (IF "resetprop" \in target THEN {"magisk"} ELSE {})

\* the crates of S in the order of rust_targets
InOrder(S) == SelectSeq(rust_targets, LAMBDA t : t \in S)

Opt(cond, word) == IF cond THEN <<word>> ELSE <<>>

\* the first flags without the one of resetprop
FirstFlagsNoProp(target) ==
    Opt("magisk" \in target, "B_MAGISK=1")
    \o Opt("magiskpolicy" \in target, "B_POLICY=1")
    \o Opt("magiskinit" \in target, "B_PRELOAD=1")

\* the flag string of the first ndk-build pass
FirstFlags(target) ==
    Opt("magisk" \in target, "B_MAGISK=1")
    \o Opt("magiskpolicy" \in target, "B_POLICY=1")
    \o Opt("magiskinit" \in target, "B_PRELOAD=1")
    \o Opt("resetprop" \in target, "B_PROP=1")

\* clean set for magiskinit as well
NeedsCleanInit(target) ==
    "magisk" \in target \/ "magiskpolicy" \in target \/ "magiskinit" \in target

\* build_binary's clean after the first flags
NeedsClean(target) == "magisk" \in target \/ "magiskpolicy" \in target

\* what ndk-build builds for a flag
FlagOutput(word) ==
    CASE word = "B_MAGISK=1" -> {"magisk"}
      [] word = "B_POLICY=1" -> {"magiskpolicy"}
      [] word = "B_PRELOAD=1" -> {"libinit-ld.so"}
      [] word = "B_PROP=1" -> {"resetprop"}
      [] word = "B_INIT=1" -> {"magiskinit"}
      [] word = "B_BOOT=1" -> {"magiskboot"}
      [] word = "B_BB=1" -> {"busybox"}
      [] OTHER -> {}

NdkOutputs(flags) == UNION {FlagOutput(flags[i]) : i \in DOMAIN flags}

VerifyNdk ==
    /\ pc = "verify"
    /\ pc' = IF NdkMatches(fs, config) THEN "select" ELSE "failed"
    /\ UNCHANGED <<fs, config, args, targets, ai, flag, clean, ret, log, start>>

SelectTargets ==
    /\ pc = "select"
    /\ args' = [args EXCEPT !.target = Select(args.target)]
    /\ pc' = IF Select(args.target) = {} THEN "done" ELSE "cargo_begin"
    /\ UNCHANGED <<fs, config, targets, ai, flag, clean, ret, log, start>>

RunCargoBuild ==
    /\ pc = "cargo_begin"
    /\ fs' = Mkdir(fs, <<"native", "out">>)
    /\ targets' = CargoTargets(args.target)
    /\ ai' = 1
    /\ pc' = IF CargoTargets(args.target) = {} THEN "flag_header" ELSE "cargo"
    /\ UNCHANGED <<config, args, flag, clean, ret, log, start>>

CargoItems(i, release, S) ==
    {<<CargoOut(i, release, t), Built(1, archs[i])>> : t \in S}

CargoLog(i, S, rc) ==
    [k \in 1..Len(InOrder(S)) |-> Ev("cargo", <<archs[i], InOrder(S)[k]>>, rc)]

\* the cargo invocations of one architecture, all returning 0.  The loop runs
\* over a set, in no fixed order; the log lists them in the order of rust_targets
CargoBuildArch ==
    /\ pc = "cargo"
    /\ fs' = ProduceAll(fs, CargoItems(ai, args.release, targets))
    /\ log' = log \o CargoLog(ai, targets, 0)
    /\ pc' = "cargo_mv"
    /\ UNCHANGED <<config, args, targets, ai, flag, clean, ret, start>>

\* the cargo invocations of one architecture, that of crate t returning non-zero
\* after those of the crates in done returned 0
CargoFail ==
    /\ pc = "cargo"
    /\ \E t \in targets : \E done \in SUBSET (targets \ {t}) :
          /\ fs' = ProduceAll(fs, CargoItems(ai, args.release, done))
          /\ log' = log \o CargoLog(ai, done, 0) \o CargoLog(ai, {t}, 1)
    /\ pc' = "failed"
    /\ UNCHANGED <<config, args, targets, ai, flag, clean, ret, start>>

CargoMoves(i, release, S) ==
    [k \in 1..Len(InOrder(S)) |->
        <<CargoOut(i, release, InOrder(S)[k]), OutPath(archs[i], LibRsA(InOrder(S)[k]))>>]

CargoRelocate ==
    /\ pc = "cargo_mv"
    /\ LET f == Mkdir(fs, <<"native", "out", archs[ai]>>)
           moves == CargoMoves(ai, args.release, targets)
       IN /\ fs' = MvAll(f, moves)
          /\ log' = log \o MvLog(f, moves)
    /\ ai' = ai + 1
    /\ pc' = IF ai = Len(archs) THEN "flag_header" ELSE "cargo"
    /\ UNCHANGED <<config, args, targets, flag, clean, ret, start>>

WriteLog(f, file_name, text) ==
    <<Ev(IF do_write(f, file_name, text) THEN "write" ELSE "same", file_name, 0)>>

dump_flag_header ==
    /\ pc = "flag_header"
    /\ LET f == MkdirParents(fs, native_gen_path)
           text == flag_txt(config, args.release)
       IN /\ fs' = write_if_diff(f, FlagsH, text)
          /\ log' = log \o WriteLog(f, FlagsH, text)
    /\ pc' = "pass1"
    /\ UNCHANGED <<config, args, targets, ai, flag, clean, ret, start>>

FirstPass ==
    /\ pc = "pass1"
    /\ flag' = FirstFlags(args.target)
    /\ clean' = NeedsClean(args.target)
    /\ IF FirstFlags(args.target) # <<>>
       THEN pc' = "ndk" /\ ret' = "pass2"
       ELSE pc' = "pass2" /\ ret' = ret
    /\ UNCHANGED <<fs, config, args, targets, ai, log, start>>

NdkItems(flags) ==
    {<<LibsPath(a, n), Built(1, a)>> : a \in Archs, n \in NdkOutputs(flags)}

\* ndk-build returning 0, its outputs in native/libs or left somewhere else
run_ndk_build ==
    /\ pc = "ndk"
    /\ \E placed \in BOOLEAN :
          fs' = IF placed THEN ProduceAll(fs, NdkItems(flag)) ELSE fs
    /\ log' = Append(log, Ev("ndk-build", flag, 0))
    /\ pc' = "ndk_mv"
    /\ UNCHANGED <<config, args, targets, ai, flag, clean, ret, start>>

\* a failing ndk-build after which the tree is put back as the run found it
NdkFailRollback ==
    /\ pc = "ndk"
    /\ fs' = start.fs
    /\ log' = Append(log, Ev("ndk-build", flag, 1))
    /\ pc' = "failed"
    /\ UNCHANGED <<config, args, targets, ai, flag, clean, ret, start>>

NdkFail ==
    /\ pc = "ndk"
    /\ log' = Append(log, Ev("ndk-build", flag, 1))
    /\ pc' = "failed"
    /\ UNCHANGED <<fs, config, args, targets, ai, flag, clean, ret, start>>

\* the sweep over a list of names that lacks magisk
NdkMovesNoMagisk ==
    SelectSeq([k \in 1..(Len(archs) * Len(ndk_names)) |->
                  LET a == archs[((k - 1) \div Len(ndk_names)) + 1]
                      n == ndk_names[((k - 1) % Len(ndk_names)) + 1]
                  IN <<LibsPath(a, n), OutPath(a, n)>>],
              LAMBDA m : m[1][4] # "magisk")

\* the moves of run_ndk_build's sweep, in order
NdkMoves ==
    [k \in 1..(Len(archs) * Len(ndk_names)) |->
        LET a == archs[((k - 1) \div Len(ndk_names)) + 1]
            n == ndk_names[((k - 1) % Len(ndk_names)) + 1]
        IN <<LibsPath(a, n), OutPath(a, n)>>]

NdkRelocate ==
    /\ pc = "ndk_mv"
    /\ fs' = MvAll(fs, NdkMoves)
    /\ log' = log \o MvLog(fs, NdkMoves)
    /\ pc' = ret
    /\ UNCHANGED <<config, args, targets, ai, flag, clean, ret, start>>

\* the second pass composed without generating the payload header first
SecondPassNoDump ==
    /\ pc = "pass2"
    /\ flag' = Opt("magiskinit" \in args.target, "B_INIT=1")
    /\ ai' = 1
    /\ pc' = "pass2b"
    /\ UNCHANGED <<fs, config, args, targets, clean, ret, log, start>>

SecondPass ==
    /\ pc = "pass2"
    /\ flag' = <<>>
    /\ ai' = 1
    /\ pc' = IF "magiskinit" \in args.target THEN "bin_header" ELSE "pass2b"
    /\ UNCHANGED <<fs, config, args, targets, clean, ret, log, start>>

\* one round of dump_bin_header's loop; open() of a missing file raises
dump_bin_header ==
    /\ pc = "bin_header"
    /\ LET f == MkdirParents(fs, native_gen_path)
           preload == OutPath(archs[ai], "libinit-ld.so")
           file_name == native_gen_path \o <<BinariesH(archs[ai])>>
       IN IF IsFile(f, preload)
          THEN LET text == binary_dump(f.files[preload], "init_ld_xz")
               IN /\ fs' = write_if_diff(f, file_name, text)
                  /\ log' = log \o WriteLog(f, file_name, text)
                  /\ ai' = ai + 1
                  /\ IF ai = Len(archs)
                     THEN pc' = "pass2b" /\ flag' = flag \o <<"B_INIT=1">>
                     ELSE pc' = pc /\ flag' = flag
          ELSE /\ fs' = f
               /\ pc' = "crashed"
               /\ UNCHANGED <<log, ai, flag>>
    /\ UNCHANGED <<config, args, targets, clean, ret, start>>

EmbedPass ==
    /\ pc = "pass2b"
    /\ LET fl == flag \o Opt("magiskboot" \in args.target, "B_BOOT=1")
       IN IF fl # <<>>
          THEN flag' = fl \o <<"B_CRT0=1">> /\ pc' = "ndk" /\ ret' = "clean"
          ELSE flag' = fl /\ pc' = "clean" /\ ret' = ret
    /\ UNCHANGED <<fs, config, args, targets, ai, clean, log, start>>

\* clean_elf, when clean is set, up to the gcc build of the cleaner; the call is
\* logged; gcc's status is not looked at
CleanElfBuild ==
    /\ pc = "clean"
    /\ IF ~clean
       THEN pc' = "busybox" /\ UNCHANGED <<fs, log>>
       ELSE /\ pc' = "elf_run"
            /\ IF Exists(fs, elf_cleaner)
               THEN fs' = fs /\ log' = Append(log, Ev("clean_elf", <<>>, 0))
               ELSE \E rc \in {0, 1} :
                      /\ fs' = IF rc = 0 THEN Produce(fs, elf_cleaner, <<1>>) ELSE fs
                      /\ log' = log \o <<Ev("clean_elf", <<>>, 0),
                                        Ev("gcc", <<"-o">> \o elf_cleaner, rc)>>
    /\ UNCHANGED <<config, args, targets, ai, flag, clean, ret, start>>

\* the binaries handed to the cleaner, in the order of its arguments
ElfArgs ==
    [k \in 1..(2 * Len(archs)) |->
        OutPath(archs[((k - 1) \div 2) + 1], <<"magisk", "magiskpolicy">>[((k - 1) % 2) + 1])]

\* the bytes of a binary once cleaned for API level 23
Cleaned(data) == IF Len(data) = 2 THEN Append(data, 23) ELSE data

\* the cleaner rewriting, in place, those of the binaries ps that exist
CleanFiles(f, ps) ==
    [f EXCEPT !.files = [q \in DOMAIN f.files |->
                            IF q \in ps THEN Cleaned(f.files[q]) ELSE f.files[q]]]

\* execv(args) of the cleaner: a missing program raises, a status is not looked
\* at.  A cleaner returning non-zero stopped after any number of its arguments
CleanElfRun ==
    /\ pc = "elf_run"
    /\ IF IsFile(fs, elf_cleaner)
       THEN \E rc \in {0, 1} :
              /\ \E k \in 0..Len(ElfArgs) :
                    /\ rc = 0 => k = Len(ElfArgs)
                    /\ fs' = CleanFiles(fs, {ElfArgs[j] : j \in 1..k})
              /\ log' = Append(log, Ev("elf-cleaner", <<"--api-level", "23">>, rc))
              /\ pc' = "busybox"
       ELSE pc' = "crashed" /\ log' = log /\ fs' = fs
    /\ UNCHANGED <<config, args, targets, ai, flag, clean, ret, start>>

BusyBox ==
    /\ pc = "busybox"
    /\ IF "busybox" \in args.target
       THEN flag' = <<"B_BB=1">> /\ pc' = "ndk" /\ ret' = "done"
       ELSE flag' = flag /\ pc' = "done" /\ ret' = ret
    /\ UNCHANGED <<fs, config, args, targets, ai, clean, log, start>>

----------------------------------------------------------------------------
(* Specification of a build_binary run *)

MarkerChoices == {<<>>} \cup {<<m>> : m \in MarkerTexts}

OndkChoices == {<<>>} \cup {<<v>> : v \in PropValues}

WithMarker(tree, mc) ==
    IF mc = <<>> THEN tree ELSE WriteFile(tree, ONDK_VERSION, mc[1])

ConfigOf(oc) == IF oc = <<>> THEN BaseConfig ELSE WithOndk(BaseConfig, oc[1])

Start(tree, mc, oc, requested, release) ==
    /\ pc = "verify"
    /\ fs = WithMarker(tree, mc)
    /\ config = ConfigOf(oc)
    /\ args = [target |-> requested, release |-> release]
    /\ targets = {}
    /\ ai = 1
    /\ flag = <<>>
    /\ clean = FALSE
    /\ ret = "done"
    /\ log = <<>>
    /\ start = [fs |-> fs, config |-> config, args |-> args,
                prev |-> [config |-> config, args |-> args]]

\* the requests tried with every marker file and configuration
GateRequests == {{}, {"bogus"}, {"magiskinit"}}

Init ==
    \/ \E mc \in MarkerChoices, oc \in OndkChoices, requested \in GateRequests :
          Start(CleanTree, mc, oc, requested, TRUE)
    \/ \E tree \in Trees, requested \in Requests, release \in BOOLEAN :
          Start(tree, <<<<"1">>>>, <<<<"1">>>>, requested, release)

Next ==
    \/ VerifyNdk
    \/ SelectTargets
    \/ RunCargoBuild
    \/ CargoBuildArch
    \/ CargoFail
    \/ CargoRelocate
    \/ dump_flag_header
    \/ FirstPass
    \/ run_ndk_build
    \/ NdkFail
    \/ NdkRelocate
    \/ SecondPass
    \/ dump_bin_header
    \/ EmbedPass
    \/ CleanElfBuild
    \/ CleanElfRun
    \/ BusyBox

Spec == Init /\ [][Next]_vars

----------------------------------------------------------------------------
(* Specification of the flag header over successive invocations: each run  *)
(* renders flags.h from its config and profile; between runs the config    *)
(* (version, versionCode) and the profile may change.                      *)

VerCodes == {1000000, 27001}

HeaderConfigs ==
    {[version |-> v, versionCode |-> c] : v \in PropValues, c \in VerCodes}

\* flags.h absent, holding something else, or left by an earlier build
HeaderTrees ==
    {CleanTree,
     WriteFile(MkdirParents(CleanTree, native_gen_path), FlagsH, <<"#pragma once", NL>>),
     StaleTree}

InitHeader ==
    \E tree \in HeaderTrees, cfg \in HeaderConfigs, release \in BOOLEAN :
       /\ pc = "flag_header"
       /\ fs = tree
       /\ config = cfg
       /\ args = [target |-> {}, release |-> release]
       /\ targets = {}
       /\ ai = 1
       /\ flag = <<>>
       /\ clean = FALSE
       /\ ret = "done"
       /\ log = <<>>
       /\ start = [fs |-> fs, config |-> config, args |-> args,
                   prev |-> [config |-> config, args |-> args]]

\* build.py is started again, the header of the last run in place
Reinvoke ==
    /\ pc = "pass1"
    /\ \E cfg \in HeaderConfigs, release \in BOOLEAN :
          /\ config' = cfg
          /\ args' = [args EXCEPT !.release = release]
    /\ start' = [fs |-> fs, config |-> config', args |-> args',
                 prev |-> [config |-> config, args |-> args]]
    /\ log' = <<>>
    /\ pc' = "flag_header"
    /\ UNCHANGED <<fs, targets, ai, flag, clean, ret>>

NextHeader ==
    \/ dump_flag_header
    \/ Reinvoke

SpecHeader == InitHeader /\ [][NextHeader]_vars

----------------------------------------------------------------------------
(* cleanup *)

\* cleanup's local support_targets
clean_targets == {"native", "cpp", "rust", "java"}

gradlew == <<"gradlew">>

NativeLibs == <<"native", "libs">>

NativeObj == <<"native", "obj">>

NativeOut == <<"native", "out">>

CargoTarget == <<"native", "src", "target">>

ModRs == <<"native", "src", "boot", "proto", "mod.rs">>

UpdateMetadataRs == <<"native", "src", "boot", "proto", "update_metadata.rs">>

AppDebug == <<"app", "src", "debug">>

AppRelease == <<"app", "src", "release">>

\* the characters of a file or directory name of the trees cleanup is run on
Chars(name) ==
    CASE name = "native" ->
           <<"n", "a", "t", "i", "v", "e">>
      [] name = "src" ->
           <<"s", "r", "c">>
      [] name = "main.cpp" ->
           <<"m", "a", "i", "n", ".", "c", "p", "p">>
      [] name = "libs" ->
           <<"l", "i", "b", "s">>
      [] name = "x86" ->
           <<"x", "8", "6">>
      [] name = "busybox" ->
           <<"b", "u", "s", "y", "b", "o", "x">>
      [] name = "obj" ->
           <<"o", "b", "j">>
      [] name = "local" ->
           <<"l", "o", "c", "a", "l">>
      [] name = "main.o" ->
           <<"m", "a", "i", "n", ".", "o">>
      [] name = "out" ->
           <<"o", "u", "t">>
      [] name = "magisk" ->
           <<"m", "a", "g", "i", "s", "k">>
      [] name = "libmagisk-rs.a" ->
           <<"l", "i", "b", "m", "a", "g", "i", "s", "k", "-", "r", "s", ".", "a">>
      [] name = "generated" ->
           <<"g", "e", "n", "e", "r", "a", "t", "e", "d">>
      [] name = "flags.h" ->
           <<"f", "l", "a", "g", "s", ".", "h">>
      [] name = "target" ->
           <<"t", "a", "r", "g", "e", "t">>
      [] name = "i686-linux-android" ->
           <<"i", "6", "8", "6", "-", "l", "i", "n", "u", "x", "-", "a", "n", "d", "r", "o", "i", "d">>
      [] name = "release" ->
           <<"r", "e", "l", "e", "a", "s", "e">>
      [] name = "libmagisk.a" ->
           <<"l", "i", "b", "m", "a", "g", "i", "s", "k", ".", "a">>
      [] name = "boot" ->
           <<"b", "o", "o", "t">>
      [] name = "proto" ->
           <<"p", "r", "o", "t", "o">>
      [] name = "mod.rs" ->
           <<"m", "o", "d", ".", "r", "s">>
      [] name = "update_metadata.rs" ->
           <<"u", "p", "d", "a", "t", "e", "_", "m", "e", "t", "a", "d", "a", "t", "a", ".", "r", "s">>
      [] name = "base" ->
           <<"b", "a", "s", "e">>
      [] name = "base-rs.cpp" ->
           <<"b", "a", "s", "e", "-", "r", "s", ".", "c", "p", "p">>
      [] name = "core" ->
           <<"c", "o", "r", "e">>
      [] name = "deep" ->
           <<"d", "e", "e", "p">>
      [] name = "core-rs.hpp" ->
           <<"c", "o", "r", "e", "-", "r", "s", ".", "h", "p", "p">>
      [] name = "base-rs.h" ->
           <<"b", "a", "s", "e", "-", "r", "s", ".", "h">>
      [] name = ".base-rs.cpp" ->
           <<".", "b", "a", "s", "e", "-", "r", "s", ".", "c", "p", "p">>
      [] name = "top-rs.cpp" ->
           <<"t", "o", "p", "-", "r", "s", ".", "c", "p", "p">>
      [] name = ".idea" ->
           <<".", "i", "d", "e", "a">>
      [] name = "idea-rs.cpp" ->
           <<"i", "d", "e", "a", "-", "r", "s", ".", "c", "p", "p">>
      [] name = "stub-rs.cpp" ->
           <<"s", "t", "u", "b", "-", "r", "s", ".", "c", "p", "p">>

IsUnder(p, root) == Len(p) >= Len(root) /\ SubSeq(p, 1, Len(root)) = root

\* shutil.rmtree(path, onerror=rm_on_error): the tree is removed, a file at path
\* is unlinked by rm_on_error, a missing path raises FileNotFoundError, which
\* rm_on_error swallows
rm_rf(f, path) ==
    [dirs |-> {d \in f.dirs : ~IsUnder(d, path)},
     files |-> [q \in {p \in DOMAIN f.files : ~IsUnder(p, path)} |-> f.files[q]]]

\* rm without its except clause: a missing file raises as well
RmRaisesMissing(f, file) == ~IsFile(f, file)

\* os.remove of a directory raises IsADirectoryError, which rm lets through
RmRaises(f, file) == file \in f.dirs

\* rm where it does not raise: a missing file is left missing
rm(f, file) == IF IsFile(f, file) THEN RemoveFile(f, file) ELSE f

RemoveFiles(f, ps) ==
    [f EXCEPT !.files = [q \in DOMAIN f.files \ ps |-> f.files[q]]]

\* glob's rule for * and **: a name starting with a dot is not matched
Hidden(name) == Chars(name)[1] = "."

\* fnmatch of a name against *-rs.*pp
FnMatch(c) ==
    \E i \in 0..(Len(c) - 6) :
       /\ SubSeq(c, i + 1, i + 4) = <<"-", "r", "s", ".">>
       /\ SubSeq(c, Len(c) - 1, Len(c)) = <<"p", "p">>

\* the glob looking into native itself only
GlobTopOnly(f) ==
    {p \in DOMAIN f.files \cup f.dirs :
        /\ Len(p) = 2
        /\ p[1] = "native"
        /\ ~Hidden(p[2])
        /\ FnMatch(Chars(p[2]))}

\* glob.glob("native/**/*-rs.*pp", recursive=True)
GlobRsGen(f) ==
    {p \in DOMAIN f.files \cup f.dirs :
        /\ Len(p) >= 2
        /\ p[1] = "native"
        /\ \A k \in 2..Len(p) : ~Hidden(p[k])
        /\ FnMatch(Chars(p[Len(p)]))}

\* the scopes with native standing for every scope
CleanupScopesNativeAll(requested) ==
    IF requested # {}
    THEN LET s == requested \cap clean_targets
         IN IF "native" \in s THEN clean_targets ELSE s
    ELSE clean_targets

\* args.target after cleanup's selection
CleanupScopes(requested) ==
    IF requested # {}
    THEN LET s == requested \cap clean_targets
         IN IF "native" \in s THEN s \cup {"cpp", "rust"} ELSE s
    ELSE clean_targets

ScopeSeq(S) == SelectSeq(<<"native", "cpp", "rust", "java">>, LAMBDA s : s \in S)

CleanupSelect ==
    /\ pc = "cl_select"
    /\ args' = [args EXCEPT !.target = CleanupScopes(args.target)]
    /\ log' = Append(log, Ev("clean", ScopeSeq(CleanupScopes(args.target)), 0))
    /\ pc' = "cl_cpp"
    /\ UNCHANGED <<fs, config, targets, ai, flag, clean, ret, start>>

CleanCpp ==
    /\ pc = "cl_cpp"
    /\ IF "cpp" \in args.target
       THEN /\ fs' = rm_rf(rm_rf(rm_rf(fs, NativeLibs), NativeObj), NativeOut)
            /\ log' = log \o <<Ev("rm_rf", NativeLibs, 0), Ev("rm_rf", NativeObj, 0),
                              Ev("rm_rf", NativeOut, 0)>>
       ELSE UNCHANGED <<fs, log>>
    /\ pc' = "cl_rust"
    /\ UNCHANGED <<config, args, targets, ai, flag, clean, ret, start>>

\* the rust scope.  glob lists its matches in no fixed order: when one of them
\* is a directory, rm raises after any of the others were removed
CleanRust ==
    /\ pc = "cl_rust"
    /\ IF "rust" \notin args.target
       THEN pc' = "cl_java" /\ UNCHANGED <<fs, log>>
       ELSE LET f1 == rm_rf(fs, CargoTarget)
                f2 == rm(f1, ModRs)
                f3 == rm(f2, UpdateMetadataRs)
                gen == GlobRsGen(f3)
            IN /\ log' = Append(log, Ev("rm_rf", CargoTarget, 0))
               /\ IF RmRaises(f1, ModRs)
                  THEN fs' = f1 /\ pc' = "crashed"
                  ELSE IF RmRaises(f2, UpdateMetadataRs)
                  THEN fs' = f2 /\ pc' = "crashed"
                  ELSE IF \E g \in gen : RmRaises(f3, g)
                  THEN /\ \E removed \in SUBSET (gen \cap DOMAIN f3.files) :
                             fs' = RemoveFiles(f3, removed)
                       /\ pc' = "crashed"
                  ELSE fs' = RemoveFiles(f3, gen) /\ pc' = "cl_java"
    /\ UNCHANGED <<config, args, targets, ai, flag, clean, ret, start>>

\* what gradle's clean tasks remove
GradleClean(f) == rm_rf(rm_rf(f, <<"app", "build">>), <<"stub", "build">>)

\* the java scope: find_jdk ends the process when javac does not run; the
\* status of gradlew is not looked at
CleanJava ==
    /\ pc = "cl_java"
    /\ IF "java" \notin args.target
       THEN pc' = "done" /\ UNCHANGED <<fs, log>>
       ELSE \E jrc \in {0, 1} :
              IF jrc # 0
              THEN /\ log' = Append(log, Ev("javac", <<"-version">>, jrc))
                   /\ pc' = "failed"
                   /\ fs' = fs
              ELSE IF ~IsFile(fs, gradlew)
              THEN /\ log' = Append(log, Ev("javac", <<"-version">>, jrc))
                   /\ pc' = "crashed"
                   /\ fs' = fs
              ELSE \E grc \in {0, 1} :
                     LET f == IF grc = 0 THEN GradleClean(fs) ELSE fs
                     IN /\ fs' = rm_rf(rm_rf(f, AppDebug), AppRelease)
                        /\ log' = log \o <<Ev("javac", <<"-version">>, jrc),
                                          Ev("gradlew", <<"app:clean", "app:shared:clean",
                                                          "stub:clean">>, grc),
                                          Ev("rm_rf", AppDebug, 0),
                                          Ev("rm_rf", AppRelease, 0)>>
                        /\ pc' = "done"
    /\ UNCHANGED <<config, args, targets, ai, flag, clean, ret, start>>

----------------------------------------------------------------------------
(* Specification of cleanup, run once or again right after it ended *)

\* cleanup runs in a row
MaxRuns == 2

\* scope names a command line may carry beyond cleanup's own
OtherScopes == {"bogus"}

ScopeRequests == SUBSET (clean_targets \cup OtherScopes)

\* a checkout with nothing built
SourceTree ==
    ProduceAll(CleanTree, {<<gradlew, <<0>> >>,
                           <<<<"native", "src", "main.cpp">>, <<0>> >>,
                           <<<<"app", "src", "main", "A.java">>, <<0>> >>})

\* what builds leave behind, by the part of cleanup it concerns
Leftovers(part) ==
    CASE part = "cpp" ->
           {<<"native", "libs", "x86", "busybox">>,
            <<"native", "obj", "local", "x86", "main.o">>,
            <<"native", "out", "x86", "magisk">>,
            <<"native", "out", "x86", "libmagisk-rs.a">>,
            <<"native", "out", "generated", "flags.h">>}
      [] part = "cache" ->
           {<<"native", "src", "target", "i686-linux-android", "release", "libmagisk.a">>}
      [] part = "bind" -> {ModRs, UpdateMetadataRs}
      [] part = "gen" ->
           {<<"native", "top-rs.cpp">>,
            <<"native", "src", "base", "base-rs.cpp">>,
            <<"native", "src", "core", "deep", "core-rs.hpp">>,
            <<"native", "src", "base", "base-rs.h">>,
            <<"native", "src", "base", ".base-rs.cpp">>,
            <<"native", ".idea", "idea-rs.cpp">>}
      [] part = "app" ->
           {<<"app", "src", "debug", "assets", "stub.apk">>,
            <<"app", "src", "release", "assets", "stub.apk">>,
            <<"app", "build", "app.apk">>}

Parts == {"cpp", "cache", "bind", "gen", "app"}

\* a directory whose name the glob matches
GenDir == <<"native", "src", "stub-rs.cpp">>

BuiltTree(parts, gendir) ==
    LET f == ProduceAll(SourceTree,
                        {<<p, <<1>> >> : p \in UNION {Leftovers(part) : part \in parts}})
    IN IF gendir THEN Mkdir(f, GenDir) ELSE f

Runs == Cardinality({i \in DOMAIN log : log[i].op = "clean"})

InitClean ==
    \E parts \in SUBSET Parts, gendir \in BOOLEAN, requested \in ScopeRequests :
       /\ pc = "cl_select"
       /\ fs = BuiltTree(parts, gendir)
       /\ config = BaseConfig
       /\ args = [target |-> requested, release |-> FALSE]
       /\ targets = {}
       /\ ai = 1
       /\ flag = <<>>
       /\ clean = FALSE
       /\ ret = "done"
       /\ log = <<>>
       /\ start = [fs |-> fs, config |-> config, args |-> args,
                   prev |-> [config |-> config, args |-> args]]

\* build.py clean is started again with the same command line
CleanAgain ==
    /\ pc = "done"
    /\ Runs < MaxRuns
    /\ args' = start.args
    /\ pc' = "cl_select"
    /\ UNCHANGED <<fs, config, targets, ai, flag, clean, ret, log, start>>

NextClean ==
    \/ CleanupSelect
    \/ CleanCpp
    \/ CleanRust
    \/ CleanJava
    \/ CleanAgain

SpecClean == InitClean /\ [][NextClean]_vars

----------------------------------------------------------------------------
(* Specification of the payload headers: dump_bin_header over shared objects *)
(* of any content, and again after a later build replaced one of them.       *)

\* longest libinit-ld.so, in bytes
MaxSoLen == 29

\* builds that replace a shared object after the headers were generated
MaxRebuilds == 1

SoSeeds == {0, 203}

\* the bytes of a shared object
SoBytes(n, seed) == [k \in 1..n |-> (seed + 37 * k) % 256]

Preload(arch) == OutPath(arch, "libinit-ld.so")

\* the shared objects of the four architectures, of different lengths and bytes
PayloadTree(n, seed, stale) ==
    LET sos == {<<Preload(archs[i]), SoBytes((n + i - 1) % (MaxSoLen + 1), seed + i)>> :
                   i \in DOMAIN archs}
        old == IF stale
               THEN {<<native_gen_path \o <<BinariesH(a)>>,
                       binary_dump(Built(0, a), "init_ld_xz")>> : a \in Archs}
               ELSE {}
    IN ProduceAll(CleanTree, sos \cup old)

InitPayload ==
    \E n \in 0..MaxSoLen, seed \in SoSeeds, stale \in BOOLEAN :
       /\ pc = "bin_header"
       /\ fs = PayloadTree(n, seed, stale)
       /\ config = BaseConfig
       /\ args = [target |-> {"magiskinit"}, release |-> TRUE]
       /\ targets = {"magiskinit"}
       /\ ai = 1
       /\ flag = <<>>
       /\ clean = FALSE
       /\ ret = "pass2"
       /\ log = <<>>
       /\ start = [fs |-> fs, config |-> config, args |-> args,
                   prev |-> [config |-> config, args |-> args]]

Rebuilds == Cardinality({i \in DOMAIN log : log[i].op = "ndk-build"})

\* a later run's B_PRELOAD pass replaces the shared object of one architecture,
\* and dump_bin_header is gone through again
Rebuild ==
    /\ pc = "pass2b"
    /\ Rebuilds < MaxRebuilds
    /\ \E a \in Archs :
          fs' = WriteFile(fs, Preload(a), <<171>> \o fs.files[Preload(a)])
    /\ start' = [start EXCEPT !.fs = fs]
    /\ log' = Append(log, Ev("ndk-build", <<"B_PRELOAD=1">>, 0))
    /\ flag' = <<>>
    /\ ai' = 1
    /\ pc' = "bin_header"
    /\ UNCHANGED <<config, args, targets, clean, ret>>

NextPayload ==
    \/ dump_bin_header
    \/ Rebuild

SpecPayload == InitPayload /\ [][NextPayload]_vars

----------------------------------------------------------------------------
(* Properties *)

Requested == start.args.target

Catalog == ToSet(support_targets)

\* SelectTargets has run (the NDK check fails with nothing logged)
Selected == pc \notin {"verify", "select"} /\ ~(pc = "failed" /\ log = <<>>)

HeaderOf(arch) == native_gen_path \o <<BinariesH(arch)>>

Generated(e, file_name) == e.op \in {"write", "same"} /\ e.arg = file_name

IsEmbedPass(e) == e.op = "ndk-build" /\ "B_INIT=1" \in Range(e.arg)

\* the lines of a text: the token runs ended by NL (and a last unended run)
Lines(text) ==
    LET ends == SelectSeq([i \in 1..Len(text) |-> i], LAMBDA i : text[i] = NL)
        from(k) == IF k = 1 THEN 1 ELSE ends[k - 1] + 1
        whole == [k \in 1..Len(ends) |-> SubSeq(text, from(k), ends[k] - 1)]
        rest == SubSeq(text, from(Len(ends) + 1), Len(text))
    IN IF rest = <<>> THEN whole ELSE Append(whole, rest)

\* the log without the moves, each entry flattened to its words, a header
\* generation named "generate" whether or not it had to write
Steps ==
    LET l == SelectSeq(log, LAMBDA e : e.op # "mv")
    IN [i \in 1..Len(l) |->
          <<IF l[i].op \in {"write", "same"} THEN "generate" ELSE l[i].op>> \o l[i].arg]

\* the positions of Steps that are the step w
At(w) == {i \in DOMAIN Steps : Steps[i] = w}

Before(S, T) == S # {} /\ T # {} /\ \A i \in S, j \in T : i < j

\* C1: an external process that returns non-zero aborts the run: it is the last
\* thing the run did, and the run does not end successfully
C1_NonZeroAborts ==
    \A i \in DOMAIN log :
       (log[i].op \in ExecOps /\ log[i].rc # 0) => (i = Len(log) /\ pc # "done")

\* C2: the ndk-build pass carrying B_INIT=1 starts only after dump_bin_header
\* has generated the header of every architecture in this run, each header
\* holding the dump of that architecture's libinit-ld.so, which exists; while
\* the shared object of some architecture is missing the pass has not started
C2_EmbedAfterHeaders ==
    /\ \A i \in DOMAIN log :
          IsEmbedPass(log[i]) =>
             \A a \in Archs : \E j \in 1..(i - 1) : Generated(log[j], HeaderOf(a))
    /\ (pc = "ndk" /\ "B_INIT=1" \in Range(flag)) =>
          \A a \in Archs :
             /\ IsFile(fs, OutPath(a, "libinit-ld.so"))
             /\ IsFile(fs, HeaderOf(a))
             /\ fs.files[HeaderOf(a)] =
                   binary_dump(fs.files[OutPath(a, "libinit-ld.so")], "init_ld_xz")
             /\ \E j \in DOMAIN log : Generated(log[j], HeaderOf(a))
    /\ (\E a \in Archs : ~IsFile(fs, OutPath(a, "libinit-ld.so"))) =>
          \A i \in DOMAIN log : ~IsEmbedPass(log[i])

C2_Witness ==
    /\ pc = "ndk_mv"
    /\ IsEmbedPass(log[Len(log)])
    /\ \E j \in DOMAIN log : log[j].op = "write" /\ log[j].arg = HeaderOf("x86_64")

MagiskinitRelease ==
    pc = "done" /\ args.target = {"magiskinit"} /\ args.release
    /\ \A i \in DOMAIN log : log[i].rc = 0

\* C3 as stated: cargo builds the base target magisk first, then the B_PRELOAD
\* pass, then flags.h, then the payload headers, then the B_INIT pass
C3_Original ==
    MagiskinitRelease =>
       /\ Steps[1][1] = "cargo" /\ Steps[1][3] = "magisk"
       /\ Before(At(<<"ndk-build", "B_PRELOAD=1">>), At(<<"generate">> \o FlagsH))
       /\ Before(At(<<"generate">> \o FlagsH),
                 UNION {At(<<"generate">> \o HeaderOf(a)) : a \in Archs})

DebugLineOf(text) == Lines(text)[8]

\* C3 amended: a run for {magiskinit} on the release profile whose processes all
\* return 0 does, in this order: cargo build of magiskinit for each architecture,
\* flags.h with MAGISK_DEBUG 0, the ndk-build pass with B_PRELOAD=1 alone, the
\* payload header of each architecture, the ndk-build pass with B_INIT=1 B_CRT0=1
C3_Amended ==
    MagiskinitRelease =>
       /\ Steps = [i \in 1..Len(archs) |-> <<"cargo", archs[i], "magiskinit">>]
                  \o << <<"generate">> \o FlagsH,
                        <<"ndk-build", "B_PRELOAD=1">> >>
                  \o [i \in 1..Len(archs) |-> <<"generate">> \o HeaderOf(archs[i])]
                  \o << <<"ndk-build", "B_INIT=1", "B_CRT0=1">> >>
       /\ DebugLineOf(fs.files[FlagsH]) = <<"#define MAGISK_DEBUG        ", "0">>

C3_Witness == MagiskinitRelease /\ start.fs = WithMarker(CleanTree, << <<"1">> >>)

\* C4: the resolved target set is within the catalog, and is the default set
\* when nothing was requested
C4_SelectInCatalog ==
    Selected =>
       /\ args.target \subseteq Catalog
       /\ Requested = {} => args.target = ToSet(default_targets)
       /\ "resetprop" \notin ToSet(default_targets)

C4_Witness ==
    /\ pc = "done"
    /\ "bogus" \in Requested
    /\ args.target = {"busybox", "magiskboot"}

C6_NothingToBuild ==
    (Requested # {} /\ Requested \cap Catalog = {} /\ NdkMatches(start.fs, config)) =>
       /\ pc \in {"verify", "select", "done"}
       /\ log = <<>>
       /\ fs = start.fs

C6_Witness ==
    pc = "done" /\ Requested = {"bogus"} /\ args.target = {} /\ log = <<>>

\* the marker file of the start, stripped, is the configured ondkVersion
MarkerIsConfigured ==
    /\ ONDK_VERSION \in DOMAIN start.fs.files
    /\ "ondkVersion" \in DOMAIN config
    /\ Strip(start.fs.files[ONDK_VERSION]) = config["ondkVersion"]

\* C7: nothing is run, written or moved unless the stripped marker file equals
\* the configured ondkVersion; otherwise the run ends in the error state; the
\* check changes no file
C7_NdkGate ==
    /\ ~MarkerIsConfigured => (pc \in {"verify", "failed"} /\ log = <<>> /\ fs = start.fs)
    /\ pc = "select" => (fs = start.fs /\ log = <<>>)

C7_Witness ==
    /\ pc = "failed"
    /\ log = <<>>
    /\ ONDK_VERSION \in DOMAIN fs.files
    /\ "ondkVersion" \in DOMAIN config
    /\ fs.files[ONDK_VERSION] = <<"1", "1">>
    /\ config["ondkVersion"] = <<"1">>

\* C8: once a build family's relocation has run, nothing it produced is left in
\* its staging place: native/libs holds no artifact outside the moment between
\* ndk-build and its relocation, and in a run that did not fail the cargo
\* output directory holds no archive outside the moment between cargo and its
\* relocation
C8_Relocated ==
    /\ pc # "ndk_mv" =>
          \A a \in Archs, n \in ToSet(ndk_names) : ~IsFile(fs, LibsPath(a, n))
    /\ pc \notin {"cargo_mv", "failed"} =>
          \A i \in DOMAIN archs, t \in ToSet(rust_targets) :
             ~IsFile(fs, CargoOut(i, args.release, t))

\* C9: after write_if_diff the file holds the text; when it held the text
\* already nothing is written, so a second generation with the same inputs
\* writes nothing
C9_WriteIfDiff ==
    pc = "pass1" =>
       LET text == flag_txt(config, args.release)
           same == IsFile(start.fs, FlagsH) /\ start.fs.files[FlagsH] = text
       IN /\ IsFile(fs, FlagsH)
          /\ fs.files[FlagsH] = text
          /\ log = <<Ev(IF same THEN "same" ELSE "write", FlagsH, 0)>>
          /\ same => fs = start.fs

C9_Witness ==
    /\ pc = "pass1"
    /\ log = <<Ev("same", FlagsH, 0)>>
    /\ start.prev.config = config
    /\ start.prev.args = args
    /\ start.fs = fs
    /\ start.fs \notin HeaderTrees

\* the run before this one differed in the version string alone
VersionAloneChanged ==
    /\ pc = "pass1"
    /\ start.prev.config.version # config.version
    /\ start.prev.config.versionCode = config.versionCode
    /\ start.prev.args.release = args.release

\* C10: the flags.h of two configs differing in the version alone have as many
\* lines and differ in the MAGISK_VERSION line alone; the version code line and
\* the debug line (1 for debug, 0 for release) are the same
C10_VersionLineAlone ==
    VersionAloneChanged =>
       LET old == Lines(start.fs.files[FlagsH])
           new == Lines(fs.files[FlagsH])
       IN /\ Len(old) = Len(new)
          /\ {i \in DOMAIN new : old[i] # new[i]} = {6}
          /\ new[6] = <<"#define MAGISK_VERSION      \"">> \o config.version \o <<"\"">>
          /\ old[6] = <<"#define MAGISK_VERSION      \"">>
                       \o start.prev.config.version \o <<"\"">>
          /\ new[7] = <<"#define MAGISK_VER_CODE     ">> \o Dec(config.versionCode)
          /\ new[8] = <<"#define MAGISK_DEBUG        ", IF args.release THEN "0" ELSE "1">>
          /\ SubSeq(new, 1, 5) = Lines(FlagTemplate)

C10_Witness ==
    /\ VersionAloneChanged
    /\ ~args.release
    /\ log = <<Ev("write", FlagsH, 0)>>

----------------------------------------------------------------------------
(* Properties of cleanup *)

\* the paths cleanup, and the gradle clean it starts, go for
CleanedPaths ==
    {NativeLibs, NativeObj, NativeOut, CargoTarget, ModRs, UpdateMetadataRs,
     AppDebug, AppRelease, <<"app", "build">>, <<"stub", "build">>}

\* cleanup started on a tree that holds none of the paths it targets
AlreadyClean ==
    /\ \A p \in CleanedPaths : ~Exists(start.fs, p)
    /\ GlobRsGen(start.fs) = {}

\* the scopes that do something, as the command line asks for them
ExpectedActive ==
    IF Requested = {} THEN {"cpp", "rust", "java"}
    ELSE (Requested \cap {"cpp", "rust", "java"})
         \cup (IF "native" \in Requested THEN {"cpp", "rust"} ELSE {})

JavacMissing(e) == e.op = "javac" /\ e.rc # 0

\* C11 as stated: on a tree that is already clean, cleanup ends without error for
\* every scope selection, the first time and again, and changes nothing
C11_Original ==
    AlreadyClean => (pc \notin {"failed", "crashed"} /\ fs = start.fs)

\* C11 amended: on a tree that is already clean, cleanup changes nothing and
\* raises nothing, the first time and again; it ends in an error only with the
\* java scope active, when find_jdk finds no working javac
C11_Amended ==
    AlreadyClean =>
       /\ fs = start.fs
       /\ pc # "crashed"
       /\ pc = "failed" => ("java" \in ExpectedActive /\ JavacMissing(log[Len(log)]))
       /\ (\A i \in DOMAIN log : ~JavacMissing(log[i])) => pc # "failed"

C11_Witness ==
    /\ AlreadyClean
    /\ Requested = {}
    /\ pc = "done"
    /\ Runs = 2
    /\ fs = start.fs
    /\ Cardinality({i \in DOMAIN log : log[i] = Ev("rm_rf", CargoTarget, 0)}) = 2
    /\ Cardinality({i \in DOMAIN log : log[i].op = "gradlew"}) = 2

\* a name of the form <name>-rs.<ext>
RsName(c) ==
    \E i \in 1..(Len(c) - 5) : SubSeq(c, i + 1, i + 4) = <<"-", "r", "s", ".">>

\* a name of the form <anything>-rs.<anything>pp
RsPPName(c) ==
    \E n \in 0..Len(c) :
       /\ Len(c) - n - 6 >= 0
       /\ <<c[n + 1], c[n + 2], c[n + 3], c[n + 4]>> = <<"-", "r", "s", ".">>
       /\ c[Len(c) - 1] = "p"
       /\ c[Len(c)] = "p"

UnderNative(f) == {p \in DOMAIN f.files : Len(p) >= 2 /\ p[1] = "native"}

NoDotOnPath(p) == \A k \in 2..Len(p) : Chars(p[k])[1] # "."

\* the rust step of the running cleanup is over
RustCleaned == pc \in {"cl_java", "done", "failed"} /\ "rust" \in args.target

\* C14 as stated: after cleanup with the rust scope no file named <name>-rs.<ext>
\* is left under native, and native/src/target and the two binding files are gone
C14_Original ==
    RustCleaned =>
       /\ \A p \in UnderNative(fs) : ~RsName(Chars(p[Len(p)]))
       /\ \A p \in {CargoTarget, ModRs, UpdateMetadataRs} : ~Exists(fs, p)

\* C14 amended: after the rust step of cleanup no file whose name matches
\* *-rs.*pp (as <name>-rs.cpp, <name>-rs.hpp) is left under native, names and
\* directories starting with a dot apart; files named <name>-rs.<ext> with
\* another extension are not removed by this scope; native/src/target and the
\* two binding files are gone
C14_Amended ==
    RustCleaned =>
       /\ \A p \in UnderNative(fs) :
             NoDotOnPath(p) => ~RsPPName(Chars(p[Len(p)]))
       /\ \A p \in UnderNative(start.fs) :
             (/\ RsName(Chars(p[Len(p)]))
              /\ ~RsPPName(Chars(p[Len(p)]))
              /\ "cpp" \notin ExpectedActive) => (IsFile(fs, p) /\ fs.files[p] = start.fs.files[p])
       /\ \A p \in {CargoTarget, ModRs, UpdateMetadataRs} : ~Exists(fs, p)

C14_Witness ==
    /\ pc = "done"
    /\ args.target = {"rust"}
    /\ \A p \in {<<"native", "top-rs.cpp">>,
                 <<"native", "src", "base", "base-rs.cpp">>,
                 <<"native", "src", "core", "deep", "core-rs.hpp">>,
                 ModRs} : IsFile(start.fs, p) /\ ~IsFile(fs, p)
    /\ Exists(start.fs, CargoTarget)
    /\ IsFile(fs, <<"native", "out", "x86", "libmagisk-rs.a">>)
    /\ IsFile(fs, <<"native", "src", "base", "base-rs.h">>)

\* the selection of the running cleanup is over
ScopesSelected == pc # "cl_select"

CppTrees(p) == Len(p) >= 2 /\ p[1] = "native" /\ p[2] \in {"libs", "obj", "out"}

\* C15: native activates the cpp and rust scopes and not java; names cleanup does
\* not know are dropped; an empty request activates every scope; what a run
\* removes and starts is what the active scopes say; with the cpp scope alone
\* native/libs, native/obj and native/out are removed and nothing else changes
C15_ScopeResolution ==
    /\ ScopesSelected =>
          /\ args.target \subseteq clean_targets
          /\ args.target \cap {"cpp", "rust", "java"} = ExpectedActive
          /\ (Requested \cap clean_targets = {"native"}) => ExpectedActive = {"cpp", "rust"}
    /\ \A i \in DOMAIN log :
          /\ (log[i].op = "rm_rf" /\ CppTrees(log[i].arg)) => "cpp" \in ExpectedActive
          /\ (log[i].op = "rm_rf" /\ log[i].arg = CargoTarget) => "rust" \in ExpectedActive
          /\ (log[i].op \in {"javac", "gradlew"}
              \/ (log[i].op = "rm_rf" /\ log[i].arg \in {AppDebug, AppRelease}))
                => "java" \in ExpectedActive
    /\ pc = "done" =>
          /\ "cpp" \in ExpectedActive =>
                \A p \in {NativeLibs, NativeObj, NativeOut} :
                   (\E i \in DOMAIN log : log[i] = Ev("rm_rf", p, 0)) /\ ~Exists(fs, p)
          /\ "rust" \in ExpectedActive => \E i \in DOMAIN log : log[i] = Ev("rm_rf", CargoTarget, 0)
          /\ "java" \in ExpectedActive => \E i \in DOMAIN log : log[i].op = "gradlew"
    /\ (ExpectedActive = {"cpp"} /\ pc \in {"cl_rust", "cl_java", "done"}) =>
          /\ fs.dirs = {d \in start.fs.dirs : ~CppTrees(d)}
          /\ DOMAIN fs.files = {p \in DOMAIN start.fs.files : ~CppTrees(p)}
          /\ \A p \in DOMAIN fs.files : fs.files[p] = start.fs.files[p]

C15_Witness ==
    /\ pc = "done"
    /\ Requested = {"cpp", "bogus"}
    /\ Exists(start.fs, NativeLibs) /\ Exists(start.fs, NativeObj) /\ Exists(start.fs, NativeOut)
    /\ ~Exists(fs, NativeLibs) /\ ~Exists(fs, NativeObj) /\ ~Exists(fs, NativeOut)
    /\ Exists(fs, CargoTarget)
    /\ Exists(fs, AppDebug)
    /\ IsFile(fs, <<"native", "src", "base", "base-rs.cpp">>)

----------------------------------------------------------------------------
(* Properties of the build passes *)

CleanElfCalls == {i \in DOMAIN log : log[i].op = "clean_elf"}

ElfTarget == "magisk" \in args.target \/ "magiskpolicy" \in args.target

\* every step before clean_elf went through: the run is at or past the call
PastCleanElf ==
    \/ pc \in {"elf_run", "busybox", "done"}
    \/ pc \in {"ndk", "ndk_mv"} /\ flag = <<"B_BB=1">>

\* C12: clean_elf is not called, and neither gcc nor the cleaner is run, when
\* neither magisk nor magiskpolicy is in the resolved target set; it is called
\* once when one of them is and the run got that far
C12_CleanElfIffNeeded ==
    /\ Cardinality(CleanElfCalls) <= 1
    /\ \A i \in DOMAIN log :
          log[i].op \in {"gcc", "elf-cleaner"} => \E j \in CleanElfCalls : j < i
    /\ Cardinality({i \in DOMAIN log : log[i].op = "elf-cleaner"}) <= 1
    /\ (Selected /\ ~ElfTarget) => CleanElfCalls = {}
    /\ (Selected /\ ElfTarget /\ PastCleanElf) =>
          Cardinality(CleanElfCalls) = 1

C12_Witness ==
    /\ pc = "done"
    /\ args.target = {"magiskpolicy", "magiskinit", "busybox"}
    /\ Cardinality(CleanElfCalls) = 1
    /\ \E i \in DOMAIN log : log[i].op = "elf-cleaner" /\ log[i].rc = 0
    /\ \E i \in DOMAIN log : log[i] = Ev("ndk-build", <<"B_BB=1">>, 0)

Pass1Words == {"B_MAGISK=1", "B_POLICY=1", "B_PRELOAD=1", "B_PROP=1"}

Pass2Words == {"B_INIT=1", "B_BOOT=1", "B_CRT0=1"}

\* the target a flag stands for
FlagTarget(word) ==
    CASE word = "B_MAGISK=1" -> "magisk"
      [] word = "B_POLICY=1" -> "magiskpolicy"
      [] word = "B_PRELOAD=1" -> "magiskinit"
      [] word = "B_PROP=1" -> "resetprop"
      [] word = "B_INIT=1" -> "magiskinit"
      [] word = "B_BOOT=1" -> "magiskboot"

Pass1At == {i \in DOMAIN log : log[i].op = "ndk-build" /\ Range(log[i].arg) \cap Pass1Words # {}}

Pass2At == {i \in DOMAIN log : log[i].op = "ndk-build" /\ Range(log[i].arg) \cap Pass2Words # {}}

\* the run is past the place of the first pass, of the second pass
PastFirst ==
    \/ pc \in {"pass2", "bin_header", "pass2b", "clean", "elf_run", "busybox"}
    \/ pc = "done" /\ args.target # {}

PastSecond ==
    \/ pc \in {"clean", "elf_run", "busybox"}
    \/ pc = "done" /\ args.target # {}

\* C16: the first ndk-build pass is run iff magisk, magiskpolicy, magiskinit or
\* resetprop is in the resolved set, with B_MAGISK, B_POLICY, B_PRELOAD, B_PROP
\* for those in the set and nothing else; the second iff magiskinit or
\* magiskboot is, with B_INIT, B_BOOT for those in the set, and B_CRT0; no pass
\* carries a flag of the other
C16_PassFlags ==
    /\ \A i \in Pass1At :
          /\ Range(log[i].arg) = {w \in Pass1Words : FlagTarget(w) \in args.target}
          /\ Len(log[i].arg) = Cardinality(Range(log[i].arg))
    /\ \A i \in Pass2At :
          /\ Range(log[i].arg) =
                {w \in Pass2Words \ {"B_CRT0=1"} : FlagTarget(w) \in args.target}
                \cup {"B_CRT0=1"}
          /\ Range(log[i].arg) # {"B_CRT0=1"}
          /\ Len(log[i].arg) = Cardinality(Range(log[i].arg))
    /\ Cardinality(Pass1At) <= 1
    /\ Cardinality(Pass2At) <= 1
    /\ \A i \in Pass1At, j \in Pass2At : i < j
    /\ PastFirst =>
          (Pass1At # {} <=>
             args.target \cap {"magisk", "magiskpolicy", "magiskinit", "resetprop"} # {})
    /\ PastSecond =>
          (Pass2At # {} <=> args.target \cap {"magiskinit", "magiskboot"} # {})

C16_Witness ==
    /\ pc = "done"
    /\ args.target = {"magisk", "resetprop", "magiskboot"}
    /\ \E i \in DOMAIN log : log[i] = Ev("ndk-build", <<"B_MAGISK=1", "B_PROP=1">>, 0)
    /\ \E i \in DOMAIN log : log[i] = Ev("ndk-build", <<"B_BOOT=1", "B_CRT0=1">>, 0)

\* the path a move or a write of the log put a file at
PlacedBy(e) == IF e.op = "mv" THEN SubSeq(e.arg, Len(e.arg) - 3, Len(e.arg)) ELSE e.arg

\* what the run has relocated into native/out/<arch> and the headers it wrote
Placed == {PlacedBy(log[i]) : i \in {j \in DOMAIN log : log[j].op \in {"mv", "write"}}}

\* cargo failed, for the architecture archs[k]
CargoFailedAt(k) ==
    /\ pc = "failed"
    /\ log # <<>>
    /\ log[Len(log)].op = "cargo"
    /\ log[Len(log)].arg[1] = archs[k]

Moved(source, target) == \E i \in DOMAIN log : log[i] = Ev("mv", source \o target, 0)

\* C17: nothing is rolled back when a process fails.  What the run relocated
\* into native/out/<arch> and the headers it wrote are there in every later
\* state; the failing step leaves each of them with the content it had; when
\* cargo fails for an architecture, the archives of the architectures before it
\* are relocated and none of its own is
C17_NoRollback ==
    /\ [](\A p \in Placed : IsFile(fs, p))
    /\ [][pc' = "failed" =>
             \A p \in Placed : IsFile(fs', p) /\ fs'.files[p] = fs.files[p]]_vars
    /\ [](\A k \in DOMAIN archs :
            CargoFailedAt(k) =>
               /\ \A j \in 1..(k - 1), t \in targets :
                     /\ Moved(CargoOut(j, args.release, t), OutPath(archs[j], LibRsA(t)))
                     /\ IsFile(fs, OutPath(archs[j], LibRsA(t)))
                     /\ fs.files[OutPath(archs[j], LibRsA(t))] = Built(1, archs[j])
                     /\ ~IsFile(fs, CargoOut(j, args.release, t))
               /\ \A t \in targets :
                     /\ \A i \in DOMAIN log :
                           log[i].op = "mv" => PlacedBy(log[i]) # OutPath(archs[k], LibRsA(t))
                     /\ IsFile(fs, OutPath(archs[k], LibRsA(t))) =>
                           fs.files[OutPath(archs[k], LibRsA(t))] # Built(1, archs[k]))

C17_Witness ==
    /\ CargoFailedAt(3)
    /\ targets = {"magisk", "magiskboot"}
    /\ start.fs = WithMarker(CleanTree, << <<"1">> >>)
    /\ IsFile(fs, OutPath("x86", LibRsA("magiskboot")))
    /\ IsFile(fs, CargoOut(3, args.release, "magisk"))
    /\ ~IsFile(fs, CargoOut(3, args.release, "magiskboot"))

ElfAt == {i \in DOMAIN log : log[i].op = "elf-cleaner"}

ElfBins == {"magisk", "magiskpolicy"}

\* a build or relocation step of the cargo loop or of the two ndk-build passes
BuildsOrMoves(e) ==
    \/ e.op = "cargo"
    \/ e.op = "ndk-build" /\ e.arg # <<"B_BB=1">>
    \/ e.op = "mv" /\ PlacedBy(e)[4] # "busybox"

\* C18: the ELF cleaner runs after every cargo build, after both ndk-build
\* passes and after their relocations: no such step, and no move of magisk or
\* magiskpolicy, follows it; when it runs no magisk or magiskpolicy is left in
\* native/libs, and each one built in this run is at native/out/<arch>/<name>
C18_CleanAfterBuilds ==
    /\ \A i \in ElfAt : \A j \in DOMAIN log : BuildsOrMoves(log[j]) => j < i
    /\ \A i \in ElfAt : \A j \in DOMAIN log :
          (log[j].op = "mv" /\ PlacedBy(log[j])[4] \in ElfBins) => j < i
    /\ (pc = "elf_run" \/ ElfAt # {}) =>
          /\ \A a \in Archs, n \in ElfBins : ~IsFile(fs, LibsPath(a, n))
          /\ \A p \in DOMAIN fs.files :
                (p[Len(p)] \in ElfBins /\ fs.files[p][1] = 1) =>
                   \E a \in Archs : p = OutPath(a, p[Len(p)]) /\ fs.files[p][2] = ArchIdx(a)

C18_Witness ==
    /\ pc = "done"
    /\ ElfAt # {}
    /\ args.target = {"magisk", "magiskboot", "busybox"}
    /\ \A a \in Archs :
          /\ IsFile(fs, OutPath(a, "magisk"))
          /\ fs.files[OutPath(a, "magisk")] = Cleaned(Built(1, a))
          /\ IsFile(fs, OutPath(a, "busybox"))

\* C20: whenever run_ndk_build is about to relocate, each architecture that
\* has an artifact in native/libs/<arch> has its directory native/out/<arch>
C20_OutDirExists ==
    pc = "ndk_mv" =>
       \A a \in Archs :
          (\E n \in ToSet(ndk_names) : IsFile(fs, LibsPath(a, n))) =>
             <<"native", "out", a>> \in fs.dirs

----------------------------------------------------------------------------
(* Properties of the payload headers *)

\* the value of a hexadecimal digit
HexValue(d) ==
    CASE d = "0" -> 0 [] d = "1" -> 1 [] d = "2" -> 2 [] d = "3" -> 3
      [] d = "4" -> 4 [] d = "5" -> 5 [] d = "6" -> 6 [] d = "7" -> 7
      [] d = "8" -> 8 [] d = "9" -> 9 [] d = "A" -> 10 [] d = "B" -> 11
      [] d = "C" -> 12 [] d = "D" -> 13 [] d = "E" -> 14 [] d = "F" -> 15
      [] OTHER -> 256

\* the bytes of the 0x literals of a text, in order
ParseArray(text) ==
    LET at == SelectSeq([i \in 1..Len(text) |-> i], LAMBDA i : text[i] = "0x")
    IN [k \in 1..Len(at) |-> 16 * HexValue(text[at[k] + 1]) + HexValue(text[at[k] + 2])]

\* the decompressor matching xz
unxz(bytes) == SubSeq(bytes, 3, Len(bytes) - 2)

\* the last replacement of a shared object in the log, 0 when there is none
LastRebuild ==
    LET at == {i \in DOMAIN log : log[i].op = "ndk-build"}
    IN IF at = {} THEN 0 ELSE CHOOSE i \in at : \A j \in at : j <= i

\* dump_bin_header has generated the header of arch since the shared objects
\* were last built
Current(arch) ==
    \E i \in (LastRebuild + 1)..Len(log) : Generated(log[i], HeaderOf(arch))

\* C13: the hexadecimal literals of the header of an architecture, in order, are
\* the compressor's output for that architecture's libinit-ld.so, and
\* decompress to its bytes; when one shared object is replaced and the headers
\* are generated again, the headers of the other architectures stay as they are
\* and the header of that architecture changes
C13_RoundTrip ==
    /\ \A a \in Archs :
          Current(a) =>
             LET so == fs.files[Preload(a)]
                 parsed == ParseArray(fs.files[HeaderOf(a)])
             IN /\ parsed = xz(so)
                /\ unxz(parsed) = so
    /\ (pc = "pass2b" /\ LastRebuild > 0) =>
          \A a \in Archs :
             /\ fs.files[Preload(a)] = start.fs.files[Preload(a)] =>
                   /\ fs.files[HeaderOf(a)] = start.fs.files[HeaderOf(a)]
                   /\ \E i \in (LastRebuild + 1)..Len(log) : log[i] = Ev("same", HeaderOf(a), 0)
             /\ fs.files[Preload(a)] # start.fs.files[Preload(a)] =>
                   /\ fs.files[HeaderOf(a)] # start.fs.files[HeaderOf(a)]
                   /\ \E i \in (LastRebuild + 1)..Len(log) : log[i] = Ev("write", HeaderOf(a), 0)

C13_Witness ==
    /\ pc = "pass2b"
    /\ LastRebuild > 0
    /\ Len(fs.files[Preload("arm64-v8a")]) = 20
    /\ fs.files[Preload("arm64-v8a")] # start.fs.files[Preload("arm64-v8a")]
    /\ fs.files[Preload("x86")] = start.fs.files[Preload("x86")]
    /\ Len(fs.files[Preload("x86")]) = 18
    /\ \A a \in Archs : unxz(ParseArray(fs.files[HeaderOf(a)])) = fs.files[Preload(a)]

UpperHex == <<"0", "1", "2", "3", "4", "5", "6", "7", "8", "9", "A", "B", "C", "D", "E", "F">>

\* the literal 0xHH, of a byte
Literal(c) == <<"0x", UpperHex[(c \div 16) + 1], UpperHex[(c % 16) + 1], ",">>

\* the lines of a header between the declaration line and the closing line
Body(text) == SubSeq(Lines(text), 2, Len(Lines(text)) - 1)

\* ceil(n / 16)
CeilDiv16(n) == (n + 15) \div 16

\* text is one array declaration of the bytes, 16 literals a line
WellFormedDump(text, bytes) ==
    LET n == Len(bytes)
        body == Body(text)
    IN /\ Lines(text)[1] = <<"constexpr unsigned char ", "init_ld_xz", "[] = {">>
       /\ Lines(text)[Len(Lines(text))] = <<"};">>
       /\ text[Len(text)] = NL
       /\ Len(body) = CeilDiv16(n)
       /\ \A k \in DOMAIN body :
             LET count == IF k < Len(body) THEN 16 ELSE n - 16 * (Len(body) - 1)
             IN /\ count \in 1..16
                /\ Len(body[k]) = 4 * count
                /\ \A j \in 1..count :
                      SubSeq(body[k], 4 * j - 3, 4 * j) = Literal(bytes[16 * (k - 1) + j])

\* C19: the header binary_dump renders for compressed bytes of length n is one
\* array declaration whose body has ceil(n/16) lines, each of 16 literals but
\* the last, which has 1 to 16, each literal the 0xHH of its byte, in order; the
\* body is empty for n = 0
C19_DumpShape ==
    /\ \A a \in Archs :
          Current(a) => WellFormedDump(fs.files[HeaderOf(a)], xz(fs.files[Preload(a)]))
    /\ Body(binary_dump_of(<<>>, "init_ld_xz")) = <<>>
    /\ WellFormedDump(binary_dump_of(<<>>, "init_ld_xz"), <<>>)

C19_Witness ==
    /\ pc = "pass2b"
    /\ Len(xz(fs.files[Preload("arm64-v8a")])) = 32
    /\ Len(Body(fs.files[HeaderOf("arm64-v8a")])) = 2
    /\ Len(xz(fs.files[Preload("x86_64")])) = 33
    /\ Len(Body(fs.files[HeaderOf("x86_64")])) = 3
    /\ Len(Body(fs.files[HeaderOf("x86_64")])[3]) = 4
    /\ \E k \in 1..33 : xz(fs.files[Preload("x86_64")])[k] < 16

====
